---- MODULE Spec2Model ----
(***************************************************************************)
(* The users resource of v1/routes/user.py: signup, get_all_users,         *)
(* get_user, update_user and delete_user over the users table.             *)
(*                                                                         *)
(* Spec     : one request at a time, every handler one atomic action.      *)
(* ConcSpec : two callers, every storage statement one atomic action.      *)
(***************************************************************************)
EXTENDS Integers, Sequences, FiniteSets, TLC

\* ---------------------------------------------------------------- bounds
MaxId == 2          \* ids the table hands out
MaxTime == 1        \* ticks of the clock
MaxIV == 1          \* distinct initialisation vectors of the cipher
MaxCalls == 3       \* requests the callers of ConcSpec send in all

\* ---------------------------------------------------------------- inputs
Callers == {"c1", "c2"}

\* Request bodies (CreateUser): two of them share an email.
CreateUser ==
    { [first_name |-> "Ann", last_name |-> "Lee", email |-> "a@x", password |-> "pw1"],
      [first_name |-> "Bob", last_name |-> "Kim", email |-> "b@x", password |-> "pw2"],
      [first_name |-> "Cyd", last_name |-> "Roe", email |-> "a@x", password |-> "pw2"] }

\* Path parameter id: 0 is what Path(gt=0) rejects.
PathIds == 0 .. MaxId

IVs == 1 .. MaxIV

Faults == {"none", "integrity", "operational"}

\* ---------------------------------------------------------------- values
None == [kind |-> "None"]

NoInput == [first_name |-> "", last_name |-> "", email |-> "", password |-> ""]

PublicFields == {"id", "first_name", "last_name", "email", "created_at", "updated_at"}

HTTP_200_OK == 200
HTTP_201_CREATED == 201
HTTP_204_NO_CONTENT == 204
HTTP_404_NOT_FOUND == 404
HTTP_409_CONFLICT == 409
HTTP_422_UNPROCESSABLE_ENTITY == 422
HTTP_500_INTERNAL_SERVER_ERROR == 500

VARIABLES
    users,      \* the users table: id -> row
    nextId,     \* the table's auto-increment counter
    now,        \* the clock
    resp,       \* the last response sent to a caller
    ledger,     \* id -> fields, as the responses so far report them
    pc,         \* ConcSpec: per caller, the statement it is about to run
    frame,      \* ConcSpec: per caller, the handler's local variables
    calls       \* ConcSpec: requests received so far

vars == <<users, nextId, now, resp, ledger, pc, frame, calls>>

\* ---------------------------------------------------------------- cipher
\* fernet.encrypt: a token that carries the plaintext under the key and a
\* fresh initialisation vector.
encrypt(plain, iv) == [plain |-> plain, iv |-> iv]

decrypt(token) == token.plain

\* ---------------------------------------------------------------- table
\* The unique index on users.email, seen from the row `self`.
DuplicateEntry(t, email, self) ==
    \E i \in DOMAIN t : i # self /\ t[i].email = email

\* What an UPDATE of row `id` to `email` violates: one that matches no row
\* violates nothing.
UniqueViolation(t, id, email) == id \in DOMAIN t /\ DuplicateEntry(t, email, id)

\* The row the table stores for an insert: the id and both timestamps are
\* column defaults.
NewRow(nid, new_user, ts) ==
    [id |-> nid,
     first_name |-> new_user.first_name,
     last_name |-> new_user.last_name,
     email |-> new_user.email,
     password |-> new_user.password,
     created_at |-> ts,
     updated_at |-> ts]

\* users.insert().values(new_user)
Insert(t, nid, new_user, ts) == t @@ (nid :> NewRow(nid, new_user, ts))

\* users.select().where(users.columns.email == email) ... fetchone()
SelectByEmail(t, email) ==
    IF \E i \in DOMAIN t : t[i].email = email
    THEN t[CHOOSE i \in DOMAIN t : t[i].email = email]
    ELSE None

\* users.select().where(users.c.id == id) ... fetchone()
SelectById(t, id) == IF id \in DOMAIN t THEN t[id] ELSE None

\* users.update(users.c.id == id).values(**updated_user)
Update(t, id, updated_user) ==
    [i \in DOMAIN t |-> IF i = id THEN updated_user ELSE t[i]]

Delete_AllRows(t, id) == << >>

Delete_Noop(t, id) == t

\* users.delete().where(users.c.id == id)
Delete(t, id) == [i \in DOMAIN t \ {id} |-> t[i]]

RECURSIVE SortedIds(_)
SortedIds(S) ==
    IF S = {} THEN <<>>
    ELSE LET m == CHOOSE x \in S : \A y \in S : x <= y
         IN <<m>> \o SortedIds(S \ {m})

\* users.select() ... fetchall(): the rows in primary key order
SelectAll(t) == [k \in 1 .. Cardinality(DOMAIN t) |-> t[SortedIds(DOMAIN t)[k]]]

\* ---------------------------------------------------------------- shaping
\* str(datetime.datetime.utcnow()) and the parse the response model applies
DatetimeStr(ts) == <<"str", ts>>

ParseDatetime(s) == s[2]

\* response_model=UserOut applied to a row
UserOut(row) == [f \in PublicFields |-> row[f]]

\* response_model=UserOut applied to update_user's dict
UserOutOfDict(d) ==
    [f \in PublicFields |-> IF f = "updated_at" THEN ParseDatetime(d[f]) ELSE d[f]]

MergeDicts_OldWins(res, user) ==
    [f \in DOMAIN res |-> res[f]]

\* {**res, **user.dict()}
MergeDicts(res, user) ==
    [f \in DOMAIN res |-> IF f \in DOMAIN user THEN user[f] ELSE res[f]]

Reply(caller, op, id, input, status, body) ==
    [caller |-> caller, op |-> op, id |-> id, input |-> input,
     status |-> status, body |-> body]

ErrorBody(detail) == [kind |-> "error", detail |-> detail]

\* What the framework sends for a handler's `return res`. For None, builds of
\* the framework differ: a null body with the route's status code, or a 500
\* from validating the response.
RowReplies(caller, op, id, input, code, res) ==
    IF res = None
    THEN { Reply(caller, op, id, input, code, [kind |-> "null"]),
           Reply(caller, op, id, input, HTTP_500_INTERNAL_SERVER_ERROR,
                 ErrorBody("Internal Server Error")) }
    ELSE { Reply(caller, op, id, input, code, [kind |-> "record", rec |-> UserOut(res)]) }

DictBody_Raw(updated_user) == [kind |-> "record", rec |-> updated_user]

\* What the framework sends for update_user's `return updated_user`.
DictBody(updated_user) == [kind |-> "record", rec |-> UserOutOfDict(updated_user)]

\* ---------------------------------------------------------------- Init
Init ==
    /\ users = << >>
    /\ nextId = 1
    /\ now = 0
    /\ resp = Reply("c1", "none", 0, NoInput, 0, [kind |-> "empty"])
    /\ ledger = << >>
    /\ pc = [c \in Callers |-> "idle"]
    /\ frame = [c \in Callers |-> None]
    /\ calls = 0

Tick ==
    /\ now < MaxTime
    /\ now' = now + 1
    /\ UNCHANGED <<users, nextId, resp, ledger, pc, frame, calls>>

\* ---------------------------------------------------------------- handlers
\* The token of a run that stores none, and the storage failure of a run
\* that reaches no write, are fixed: such a run is one step.
TokenStored(stored, iv) == stored \/ iv = 1

WriteReached(reached, fault) == reached \/ fault = "none"

signup(user, iv) ==
    /\ TokenStored(~DuplicateEntry(users, user.email, 0), iv)
    /\ LET new_user == [user EXCEPT !.password = encrypt(user.password, iv)]
       IN IF DuplicateEntry(users, new_user.email, 0)
          THEN \* IntegrityError leaves the handler uncaught
               /\ resp' = Reply("c1", "signup", 0, user, HTTP_500_INTERNAL_SERVER_ERROR,
                                ErrorBody("Internal Server Error"))
               /\ UNCHANGED <<users, nextId, ledger>>
          ELSE /\ nextId <= MaxId
               /\ users' = Insert(users, nextId, new_user, now)
               /\ nextId' = nextId + 1
               /\ LET res == SelectByEmail(users', new_user.email)
                  IN /\ resp' \in RowReplies("c1", "signup", 0, user, HTTP_201_CREATED, res)
                     /\ ledger' = IF resp'.status = HTTP_201_CREATED /\ resp'.body.kind = "record"
                                  THEN ledger @@ (resp'.body.rec.id :>
                                         [first_name |-> user.first_name,
                                          last_name |-> user.last_name,
                                          email |-> user.email])
                                  ELSE ledger
    /\ UNCHANGED <<now, pc, frame, calls>>

get_all_users ==
    /\ LET response == SelectAll(users)
       IN resp' = Reply("c1", "list", 0, NoInput, HTTP_200_OK,
                        [kind |-> "list",
                         items |-> [k \in 1 .. Len(response) |-> UserOut(response[k])]])
    /\ UNCHANGED <<users, nextId, now, ledger, pc, frame, calls>>

\* `response` in get_user is the module imported by `from urllib import response`.
response == [kind |-> "module", name |-> "urllib.response"]

ValidationReply(caller, op, id, input) ==
    Reply(caller, op, id, input, HTTP_422_UNPROCESSABLE_ENTITY, ErrorBody("validation error"))

NotFoundReply(caller, op, id, input) ==
    Reply(caller, op, id, input, HTTP_404_NOT_FOUND, ErrorBody("User not found"))

get_user(id) ==
    /\ IF ~(id > 0)
       THEN resp' = ValidationReply("c1", "get", id, NoInput)
       ELSE LET res == SelectById(users, id)
            IN IF response = None
               THEN resp' = NotFoundReply("c1", "get", id, NoInput)
               ELSE resp' \in RowReplies("c1", "get", id, NoInput, HTTP_200_OK, res)
    /\ UNCHANGED <<users, nextId, now, ledger, pc, frame, calls>>

\* updated_user as update_user builds it before the write
UpdatedUser(res, user, iv) ==
    [MergeDicts(res, user) EXCEPT !.password = encrypt(user.password, iv)]

\* What the storage layer raises for the write of update_user, if anything.
NoError == [kind |-> "none", duplicate |-> FALSE, key |-> ""]

StorageError(t, id, updated_user, fault) ==
    IF UniqueViolation(t, id, updated_user.email)
    THEN [kind |-> "IntegrityError", duplicate |-> TRUE, key |-> "users.email"]
    ELSE IF fault = "integrity"
    THEN [kind |-> "IntegrityError", duplicate |-> FALSE, key |-> ""]
    ELSE IF fault = "operational"
    THEN [kind |-> "OperationalError", duplicate |-> FALSE, key |-> ""]
    ELSE NoError

ClassifyIntegrityError_Always500(e) == HTTP_500_INTERNAL_SERVER_ERROR

\* except IntegrityError: "Duplicate entry" and "users.email" in str(e)
ClassifyIntegrityError(e) ==
    IF e.duplicate /\ e.key = "users.email"
    THEN HTTP_409_CONFLICT
    ELSE HTTP_500_INTERNAL_SERVER_ERROR

\* The try/except around the write, and what follows it: the table after
\* the statement and the reply.
SaveUser(caller, t, id, user, updated_user, fault, ts) ==
    LET e == StorageError(t, id, updated_user, fault)
    IN IF e.kind = "IntegrityError"
       THEN [users |-> t,
             reply |-> Reply(caller, "update", id, user, ClassifyIntegrityError(e),
                             ErrorBody(IF ClassifyIntegrityError(e) = HTTP_409_CONFLICT
                                       THEN "Email already exist!"
                                       ELSE "Internal server error."))]
       ELSE IF e.kind = "OperationalError"
       THEN \* not an IntegrityError: leaves the handler uncaught
            [users |-> t,
             reply |-> Reply(caller, "update", id, user, HTTP_500_INTERNAL_SERVER_ERROR,
                             ErrorBody("Internal Server Error"))]
       ELSE [users |-> Update(t, id, updated_user),
             reply |-> Reply(caller, "update", id, user, HTTP_200_OK,
                             DictBody([updated_user EXCEPT !.updated_at = DatetimeStr(ts)]))]

update_user(id, user, iv, fault) ==
    /\ WriteReached(id \in DOMAIN users /\ ~UniqueViolation(users, id, user.email), fault)
    /\ TokenStored(id \in DOMAIN users /\ ~UniqueViolation(users, id, user.email)
                   /\ fault = "none", iv)
    /\ IF ~(id > 0)
       THEN /\ resp' = ValidationReply("c1", "update", id, user)
            /\ UNCHANGED <<users, ledger>>
       ELSE LET res == SelectById(users, id)
            IN IF res = None
               THEN /\ resp' = NotFoundReply("c1", "update", id, user)
                    /\ UNCHANGED <<users, ledger>>
               ELSE LET out == SaveUser("c1", users, id, user, UpdatedUser(res, user, iv),
                                        fault, now)
                    IN /\ users' = out.users
                       /\ resp' = out.reply
                       /\ ledger' = IF out.reply.status = HTTP_200_OK /\ id \in DOMAIN ledger
                                    THEN [ledger EXCEPT ![id] =
                                            [first_name |-> user.first_name,
                                             last_name |-> user.last_name,
                                             email |-> user.email]]
                                    ELSE ledger
    /\ UNCHANGED <<nextId, now, pc, frame, calls>>

delete_user(id) ==
    /\ IF ~(id > 0)
       THEN /\ resp' = ValidationReply("c1", "delete", id, NoInput)
            /\ UNCHANGED <<users, ledger>>
       ELSE LET user_response == SelectById(users, id)
            IN IF user_response = None
               THEN /\ resp' = NotFoundReply("c1", "delete", id, NoInput)
                    /\ UNCHANGED <<users, ledger>>
               ELSE /\ users' = Delete(users, id)
                    /\ resp' = Reply("c1", "delete", id, NoInput, HTTP_204_NO_CONTENT,
                                     [kind |-> "empty"])
                    /\ ledger' = [i \in DOMAIN ledger \ {id} |-> ledger[i]]
    /\ UNCHANGED <<nextId, now, pc, frame, calls>>

Next ==
    \/ Tick
    \/ \E user \in CreateUser, iv \in IVs : signup(user, iv)
    \/ get_all_users
    \/ \E id \in PathIds : get_user(id)
    \/ \E id \in PathIds, user \in CreateUser, iv \in IVs, fault \in Faults :
          update_user(id, user, iv, fault)
    \/ \E id \in PathIds : delete_user(id)

Spec == Init /\ [][Next]_vars

\* ---------------------------------------------------------------- statements
\* The same handlers, one storage statement per step, for two callers.
Goto(c, label, locals) ==
    /\ pc' = [pc EXCEPT ![c] = label]
    /\ frame' = [frame EXCEPT ![c] = locals]

\* signup, line 51-54: encrypt and insert
signup_insert(c, user, iv) ==
    /\ pc[c] = "idle"
    /\ TokenStored(~DuplicateEntry(users, user.email, 0), iv)
    /\ calls < MaxCalls
    /\ calls' = calls + 1
    /\ LET new_user == [user EXCEPT !.password = encrypt(user.password, iv)]
       IN IF DuplicateEntry(users, new_user.email, 0)
          THEN /\ resp' = Reply(c, "signup", 0, user, HTTP_500_INTERNAL_SERVER_ERROR,
                                ErrorBody("Internal Server Error"))
               /\ UNCHANGED <<users, nextId, pc, frame>>
          ELSE /\ nextId <= MaxId
               /\ users' = Insert(users, nextId, new_user, now)
               /\ nextId' = nextId + 1
               /\ Goto(c, "signup_select", [id |-> 0, user |-> user, res |-> None])
               /\ UNCHANGED resp
    /\ UNCHANGED <<now, ledger>>

\* signup, line 56-58: re-select by email and return
signup_select(c) ==
    /\ pc[c] = "signup_select"
    /\ LET res == SelectByEmail(users, frame[c].user.email)
       IN resp' \in RowReplies(c, "signup", 0, frame[c].user, HTTP_201_CREATED, res)
    /\ Goto(c, "idle", None)
    /\ UNCHANGED <<users, nextId, now, ledger, calls>>

\* update_user, line 174-180: look the row up
update_lookup(c, id, user) ==
    /\ pc[c] = "idle"
    /\ calls < MaxCalls
    /\ calls' = calls + 1
    /\ id > 0
    /\ LET res == SelectById(users, id)
       IN IF res = None
          THEN /\ resp' = NotFoundReply(c, "update", id, user)
               /\ UNCHANGED <<pc, frame>>
          ELSE /\ Goto(c, "update_write", [id |-> id, user |-> user, res |-> res])
               /\ UNCHANGED resp
    /\ UNCHANGED <<users, nextId, now, ledger>>

\* update_user, line 189-213: merge, encrypt, write, return
update_write(c, iv, fault) ==
    /\ pc[c] = "update_write"
    /\ WriteReached(~UniqueViolation(users, frame[c].id, frame[c].user.email), fault)
    /\ TokenStored(~UniqueViolation(users, frame[c].id, frame[c].user.email)
                   /\ fault = "none", iv)
    /\ LET out == SaveUser(c, users, frame[c].id, frame[c].user,
                           UpdatedUser(frame[c].res, frame[c].user, iv), fault, now)
       IN /\ users' = out.users
          /\ resp' = out.reply
    /\ Goto(c, "idle", None)
    /\ UNCHANGED <<nextId, now, ledger, calls>>

\* delete_user, line 245-251: look the row up
delete_lookup(c, id) ==
    /\ pc[c] = "idle"
    /\ calls < MaxCalls
    /\ calls' = calls + 1
    /\ id > 0
    /\ LET user_response == SelectById(users, id)
       IN IF user_response = None
          THEN /\ resp' = NotFoundReply(c, "delete", id, NoInput)
               /\ UNCHANGED <<pc, frame>>
          ELSE /\ Goto(c, "delete_stmt", [id |-> id, user |-> NoInput, res |-> user_response])
               /\ UNCHANGED resp
    /\ UNCHANGED <<users, nextId, now, ledger>>

\* delete_user, line 260-262: delete and return
delete_stmt(c) ==
    /\ pc[c] = "delete_stmt"
    /\ users' = Delete(users, frame[c].id)
    /\ resp' = Reply(c, "delete", frame[c].id, NoInput, HTTP_204_NO_CONTENT, [kind |-> "empty"])
    /\ Goto(c, "idle", None)
    /\ UNCHANGED <<nextId, now, ledger, calls>>

ConcNext ==
    \/ Tick
    \/ \E c \in Callers, user \in CreateUser, iv \in IVs : signup_insert(c, user, iv)
    \/ \E c \in Callers : signup_select(c)
    \/ \E c \in Callers, id \in 1 .. MaxId, user \in CreateUser : update_lookup(c, id, user)
    \/ \E c \in Callers, iv \in IVs, fault \in Faults : update_write(c, iv, fault)
    \/ \E c \in Callers, id \in 1 .. MaxId : delete_lookup(c, id)
    \/ \E c \in Callers : delete_stmt(c)

ConcSpec == Init /\ [][ConcNext]_vars

\* ---------------------------------------------------------------- claims
\* C1: signup with an email a stored row already owns fails with Conflict
\* (409) and leaves the table unchanged; signup with an absent email succeeds.
C1_SignupDuplicateIsConflict ==
    [][resp'.op = "signup" =>
       \A iv \in IVs :
         LET user == resp'.input
         IN
         signup(user, iv) =>
            IF DuplicateEntry(users, user.email, 0)
            THEN resp'.status = HTTP_409_CONFLICT /\ users' = users
            ELSE resp'.status = HTTP_201_CREATED /\ resp'.body.kind = "record"]_vars

\* C2: get_user on an id > 0 that no stored row has fails with NotFound (404).
C2_GetAbsentIsNotFound ==
    (resp.op = "get" /\ resp.id > 0 /\ resp.id \notin DOMAIN users)
        => resp.status = HTTP_404_NOT_FOUND

\* C3: a successful update_user replaces first_name, last_name, email and
\* password (re-encrypted) of the row, keeps its id and created_at, and
\* leaves every other row unchanged.
C3_UpdateFrame ==
    [][(resp'.op = "update" /\ resp'.status = HTTP_200_OK) =>
       \A iv \in IVs, fault \in Faults :
         LET id == resp'.id
             user == resp'.input
         IN
         update_user(id, user, iv, fault) =>
            /\ id \in DOMAIN users
            /\ DOMAIN users' = DOMAIN users
            /\ users'[id].first_name = user.first_name
            /\ users'[id].last_name = user.last_name
            /\ users'[id].email = user.email
            /\ users'[id].password = encrypt(user.password, iv)
            /\ decrypt(users'[id].password) = user.password
            /\ users'[id].id = users[id].id
            /\ users'[id].created_at = users[id].created_at
            /\ \A j \in DOMAIN users \ {id} : users'[j] = users[j]]_vars

C3_Witness ==
    /\ resp.op = "update"
    /\ resp.status = HTTP_200_OK
    /\ Cardinality(DOMAIN users) = 2
    /\ users[resp.id].first_name = "Cyd"
    /\ users[resp.id].created_at < now

\* C4: a successful update_user refreshes the stored updated_at, and the
\* updated_at it returns is the stored one, not smaller than the previous.
C4_UpdatedAtPersisted ==
    (resp.op = "update" /\ resp.status = HTTP_200_OK)
        => resp.body.rec.updated_at = users[resp.id].updated_at

\* C5: update_user of an existing row with an email another row owns fails
\* with Conflict (409) and changes no row; with the row's own email it
\* succeeds; any other storage failure of the write is a 500.
C5_UpdateConflict ==
    [][(resp'.op = "update" /\ resp'.id \in DOMAIN users) =>
       \A iv \in IVs, fault \in Faults :
         LET id == resp'.id
             user == resp'.input
         IN
         update_user(id, user, iv, fault) =>
            /\ DuplicateEntry(users, user.email, id)
                  => (resp'.status = HTTP_409_CONFLICT /\ users' = users)
            /\ (users[id].email = user.email /\ fault = "none")
                  => resp'.status = HTTP_200_OK
            /\ (~DuplicateEntry(users, user.email, id) /\ fault # "none")
                  => (resp'.status = HTTP_500_INTERNAL_SERVER_ERROR /\ users' = users)]_vars

C5_Witness ==
    /\ resp.op = "update"
    /\ resp.status = HTTP_409_CONFLICT
    /\ resp.id \in DOMAIN users
    /\ \E j \in DOMAIN users : j # resp.id /\ users[j].email = resp.input.email

\* C6: delete_user on an id > 0 that no row has fails with NotFound (404) and
\* changes nothing; on an id that exists it removes that row and no other.
C6_DeleteFrame ==
    [][(resp'.op = "delete" /\ resp'.id > 0) =>
       LET id == resp'.id
       IN
         delete_user(id) =>
            IF id \notin DOMAIN users
            THEN resp'.status = HTTP_404_NOT_FOUND /\ users' = users
            ELSE /\ resp'.status = HTTP_204_NO_CONTENT
                 /\ DOMAIN users' = DOMAIN users \ {id}
                 /\ \A j \in DOMAIN users' : users'[j] = users[j]]_vars

C6_Witness ==
    /\ resp.op = "delete"
    /\ resp.status = HTTP_404_NOT_FOUND
    /\ resp.id > 0
    /\ resp.id < nextId
    /\ resp.id \notin DOMAIN users
    /\ users # << >>

\* C7: get_all_users returns exactly the records the responses so far report
\* as created and not since deleted, each once, with their current field
\* values; on an empty table it returns the empty sequence with 200.
C7_ListIsLedger ==
    resp.op = "list" =>
        /\ resp.status = HTTP_200_OK
        /\ resp.body.kind = "list"
        /\ Len(resp.body.items) = Cardinality(DOMAIN ledger)
        /\ {resp.body.items[k].id : k \in 1 .. Len(resp.body.items)} = DOMAIN ledger
        /\ \A k \in 1 .. Len(resp.body.items) :
              LET item == resp.body.items[k]
              IN /\ item.first_name = ledger[item.id].first_name
                 /\ item.last_name = ledger[item.id].last_name
                 /\ item.email = ledger[item.id].email
                 /\ item.id \in DOMAIN users
                 /\ item = UserOut(users[item.id])
        /\ (ledger = << >> => resp.body.items = << >>)

C7_Witness ==
    /\ resp.op = "list"
    /\ Len(resp.body.items) = 1
    /\ nextId >= 3
    /\ resp.body.items[1].first_name = "Cyd"

\* C8: no response of signup, get_all_users, get_user or update_user carries
\* a password field: every returned record has exactly the public fields.
C8_NoPasswordInResponse ==
    /\ "password" \notin DOMAIN resp.body
    /\ resp.body.kind = "record" => DOMAIN resp.body.rec = PublicFields
    /\ resp.body.kind = "list" =>
          \A k \in 1 .. Len(resp.body.items) : DOMAIN resp.body.items[k] = PublicFields

C8_Witness ==
    /\ resp.op = "update"
    /\ resp.status = HTTP_200_OK
    /\ resp.body.kind = "record"
    /\ users[resp.id].password.plain = resp.input.password

\* C9: under every interleaving with other callers' update and delete
\* statements, signup with a fresh email succeeds and returns a record whose
\* email, first_name and last_name are the input's.
C9_SignupReturnsInput ==
    [][resp'.op = "signup" =>
       \A c \in Callers :
         signup_select(c) =>
            /\ resp'.status = HTTP_201_CREATED
            /\ resp'.body.kind = "record"
            /\ resp'.body.rec.email = frame[c].user.email
            /\ resp'.body.rec.first_name = frame[c].user.first_name
            /\ resp'.body.rec.last_name = frame[c].user.last_name]_vars

\* C10: under every interleaving with a delete of the same id, update_user
\* returns success only if a row with that id is in the table when the write
\* is applied, and that row holds the returned values afterwards.
C10_UpdateRequiresExists ==
    [][(resp'.op = "update" /\ resp'.status = HTTP_200_OK) =>
       \A c \in Callers, iv \in IVs, fault \in Faults :
         update_write(c, iv, fault) =>
            /\ frame[c].id \in DOMAIN users
            /\ frame[c].id \in DOMAIN users'
            /\ users'[frame[c].id].first_name = resp'.body.rec.first_name
            /\ users'[frame[c].id].last_name = resp'.body.rec.last_name
            /\ users'[frame[c].id].email = resp'.body.rec.email]_vars

====
